---- MODULE Spec2Model ----
(***************************************************************************)
(* WebNotes (src/main.py, src/database.py): users, notes, the Redis        *)
(* session store and caches, and the request handlers of the FastAPI       *)
(* application.  A request runs in a slot; every step of a request is one  *)
(* round trip to PostgreSQL or to Redis (with the local computation that   *)
(* precedes it), so that requests interleave exactly where the code lets   *)
(* them.                                                                   *)
(***************************************************************************)
EXTENDS Integers, Sequences, FiniteSets, TLC

\* ---------------------------------------------------------------- bounds
NSlots == 2          \* requests in flight at once
MaxSessions == 1     \* session ids uuid4 hands out
MaxNotes == 2        \* ids the notes SERIAL hands out
MaxClock == 3        \* CURRENT_TIMESTAMP values the store hands out
MaxFaults == 2       \* changes of Redis reachability while serving (SpecFault)
MaxTicks == 4        \* the application clock's last value (SpecLife)

\* ------------------------------------------------------ program constants
SESSION_EXPIRY_HOURS == 24
UserCacheTTL == 3600
NotesCacheTTL == 300
NoMinPasswordLen == 6 - 6   \* a register that takes any non-empty password
MinPasswordLen == 6

NoCookie == 0        \* request.cookies.get("session_id") is None / empty
Forged == -1         \* a cookie value uuid4 never produced
NoTTL == -1          \* a Redis key without expiry
NoneStr == "<None>"  \* Python None in an Optional[str] field

Slots == 1..NSlots
\* <<username, password>> of the register and of the login requests
RegisterIn == {<<"", "secret1">>, <<"alice", "">>, <<"alice", "short">>,
               <<"alice", "secret1">>, <<"bob", "secret2">>}
LoginIn == RegisterIn \cup {<<"alice", "secret2">>, <<"carol", "secret1">>}
TitleIn == {" ", "T1"}
TextIn == {"B1"}
PatchTitleIn == {NoneStr, "T2", "T3"}
PatchTextIn == {NoneStr, "B2"}
NoteIdIn == 1..MaxNotes

VARIABLES
    users,            \* table users: set of rows
    next_user_id,     \* users.id SERIAL
    notes,            \* table notes: set of rows
    next_note_id,     \* notes.id SERIAL
    clock,            \* CURRENT_TIMESTAMP of the database server, a logical time
    now,              \* datetime.now() of the application server, moved by Tick
    redis_available,  \* the flag set once at import time
    redis_up,         \* whether Redis answers now
    faults,           \* changes of redis_up so far
    kv_session,       \* session:<sid>        -> [val, ttl]
    kv_user_sessions, \* user_sessions:<uid>  -> [members, ttl]
    kv_user,          \* user:<username>      -> [val, ttl]
    kv_notes,         \* notes:<uid>          -> [val, ttl]
    next_sid,         \* uuid4: the next fresh session id
    req,              \* the request in each slot, with its response
    issued,           \* history: session id -> identity create_session bound to it
    ended,            \* history: session ids whose logout has started or whose record expired
    loggedOut,        \* history: session ids for which delete_session has returned
    wrote             \* history: users with a successful note write and no list started since

db == <<users, next_user_id, notes, next_note_id, clock>>
redis == <<kv_session, kv_user_sessions, kv_user, kv_notes>>
env == <<redis_available, redis_up, faults, now>>
hist == <<issued, ended, loggedOut, wrote>>
vars == <<users, next_user_id, notes, next_note_id, clock, now, redis_available,
          redis_up, faults, kv_session, kv_user_sessions, kv_user, kv_notes,
          next_sid, req, issued, ended, loggedOut, wrote>>

\* ------------------------------------------------------------- key/value
Put(f, k, v) == [x \in DOMAIN f \cup {k} |-> IF x = k THEN v ELSE f[x]]
Del(f, k) == [x \in DOMAIN f \ {k} |-> f[x]]
Empty == [x \in {} |-> 0]

\* json.dumps / json.loads: a value travels through Redis as its encoding.
json_dumps(v) == [json |-> v]
json_loads(s) == s.json

\* json.dumps(notes) raises TypeError when a row holds a datetime: every note
\* row carries created_at and updated_at as datetime objects, so only the empty
\* list can be encoded.
JsonSerializable(rows) == Len(rows) = 0

\* ------------------------------------------------------------- passwords
hash_password(password) == <<"bcrypt", password>>
\* A verification that compares the password with the hash itself.
verify_password_plain(plain_password, hashed_password) ==
    hashed_password = plain_password

\* A verification that accepts every password.
verify_password_any(plain_password, hashed_password) ==
    hashed_password = <<"bcrypt", plain_password>> \/ plain_password # ""

verify_password(plain_password, hashed_password) ==
    hashed_password = <<"bcrypt", plain_password>>

\* ------------------------------------------------------------------ rows
NoSession == [user_id |-> 0, username |-> "", created_at |-> 0, last_activity |-> 0]
NoUserRow == [id |-> 0, username |-> "", password_hash |-> <<"bcrypt", "">>]

UserRows(username) == {u \in users : u.username = username}
SelectUser(username) ==
    IF UserRows(username) = {} THEN NoUserRow
    ELSE LET u == CHOOSE u \in UserRows(username) : TRUE
         IN [id |-> u.id, username |-> u.username, password_hash |-> u.password_hash]

NoteRows(note_id) == {n \in notes : n.id = note_id}
NotesOfUser(user_id) == {n \in notes : n.user_id = user_id}

\* SELECT ... WHERE user_id = %s ORDER BY created_at DESC, rows as dicts.
RECURSIVE OrderDesc(_)
OrderDesc(S) ==
    IF S = {} THEN <<>>
    ELSE LET n == CHOOSE n \in S : \A m \in S : m.created_at <= n.created_at
         IN <<[id |-> n.id, title |-> n.title, text |-> n.text,
               created_at |-> n.created_at, updated_at |-> n.updated_at]>>
            \o OrderDesc(S \ {n})
_get_notes_from_db(user_id) == OrderDesc(NotesOfUser(user_id))

\* -------------------------------------------------------------- requests
Idle == [op |-> "none", pc |-> "idle", cookie |-> NoCookie,
         username |-> "", password |-> "", note_id |-> 0,
         title |-> NoneStr, text |-> NoneStr,
         data |-> NoSession, user |-> NoSession, sid |-> 0, uid |-> 0,
         row |-> NoUserRow, rows |-> <<>>, status |-> 0, detail |-> "", err |-> "",
         out_id |-> 0, set_cookie |-> NoCookie, max_age |-> 0,
         body |-> <<>>, active_sessions |-> 0,
         g_valid |-> FALSE, g_dead |-> FALSE, g_after |-> FALSE,
         g_clean |-> FALSE, g_existed |-> FALSE,
         conn |-> FALSE]  \* conn: the handler holds an open database connection

\* While a response is being delivered nothing else moves, so that each response
\* is seen against the state it was produced in.
Delivered == \A r \in Slots : req[r].pc # "done"

\* Slot r takes the next request: the lowest free slot does.
Free(r) ==
    /\ Delivered
    /\ req[r].pc = "idle"
    /\ \A s \in Slots : s < r => req[s].pc # "idle"

\* The request in slot r is about to take the step named pc.
At(r, pc) == Delivered /\ req[r].pc = pc

\* The response: a status with its detail; the locals of the handler are gone.
Reply(q, status, detail) ==
    [q EXCEPT !.pc = "done", !.status = status, !.detail = detail,
              !.data = NoSession, !.row = NoUserRow, !.rows = <<>>,
              !.sid = 0, !.uid = 0]

\* An exception no handler catches: FastAPI answers 500.
Raise(q, err) ==
    [Reply(q, 500, "Internal Server Error") EXCEPT !.err = err, !.out_id = 0]

Cookies == {NoCookie, Forged} \cup DOMAIN issued

\* The identity the session id was issued for (0: none).
UserOfCookie(cookie) ==
    IF cookie \in DOMAIN issued THEN issued[cookie].user_id ELSE 0

\* A committed change of user_id's notes happened while these lists were open.
MarkWrite(rq, user_id) ==
    [s \in Slots |->
        IF rq[s].op = "read_notes" /\ UserOfCookie(rq[s].cookie) = user_id
        THEN [rq[s] EXCEPT !.g_clean = FALSE] ELSE rq[s]]

\* ------------------------------------------------------------------ Init
Init ==
    /\ users = {}
    /\ next_user_id = 1
    /\ notes = {}
    /\ next_note_id = 1
    /\ clock = 1
    /\ now = 1
    /\ redis_available \in BOOLEAN
    /\ redis_up = redis_available
    /\ faults = 0
    /\ kv_session = Empty
    /\ kv_user_sessions = Empty
    /\ kv_user = Empty
    /\ kv_notes = Empty
    /\ next_sid = 1
    /\ req = [r \in Slots |-> Idle]
    /\ issued = Empty
    /\ ended = {}
    /\ loggedOut = {}
    /\ wrote = {}

\* ------------------------------------------------------ session manager
\* A lookup that answers with any stored record when the key is absent.
SessionRecordAny(session_id) ==
    IF DOMAIN kv_session = {} THEN NoSession
    ELSE json_loads(kv_session[CHOOSE k \in DOMAIN kv_session : TRUE].val)

\* GET session:<sid> and json.loads: the stored record, or none.
SessionRecord(session_id) ==
    IF session_id \in DOMAIN kv_session
    THEN json_loads(kv_session[session_id].val) ELSE NoSession

\* A gate that lets the request through without an identity.
UnauthenticatedPass(q) == [q EXCEPT !.pc = q.op]

\* require_auth: no current user is 401.
Unauthenticated(q) == Reply(q, 401, "Authentication required")

\* get_current_user / get_session, the read: no cookie or no Redis is None; else
\* GET session:<sid>.
get_session(r, q) ==
    /\ req' = [req EXCEPT ![r] =
            IF q.cookie = NoCookie \/ ~redis_available THEN Unauthenticated(q)
            ELSE IF ~redis_up THEN Raise(q, "session_store")
            ELSE IF SessionRecord(q.cookie) = NoSession THEN Unauthenticated(q)
            ELSE [q EXCEPT !.pc = "get_session", !.data = SessionRecord(q.cookie)]]
    /\ UNCHANGED <<db, redis, next_sid>>

\* A refresh that builds the record anew from the user id alone.
GetSessionSetexFresh(r) ==
    /\ At(r, "get_session")
    /\ LET q == req[r]
           data == [NoSession EXCEPT !.user_id = q.data.user_id,
                                     !.created_at = now, !.last_activity = now]
       IN /\ kv_session' = Put(kv_session, q.cookie,
                    [val |-> json_dumps(data), ttl |-> SESSION_EXPIRY_HOURS * 3600])
          /\ req' = [req EXCEPT ![r] =
                    [q EXCEPT !.pc = q.op, !.user = data, !.data = NoSession]]
          /\ UNCHANGED <<kv_user_sessions, kv_user, kv_notes>>
    /\ UNCHANGED <<db, env, next_sid, hist>>

\* get_session, the refresh: last_activity = now, SETEX with the full TTL; the
\* handler then runs with the session's identity.
GetSessionSetex(r) ==
    /\ At(r, "get_session")
    /\ LET q == req[r]
           data == [q.data EXCEPT !.last_activity = now]
       IN IF ~redis_up
          THEN /\ req' = [req EXCEPT ![r] = Raise(q, "session_store")]
               /\ UNCHANGED redis
          ELSE /\ kv_session' = Put(kv_session, q.cookie,
                        [val |-> json_dumps(data),
                         ttl |-> SESSION_EXPIRY_HOURS * 3600])
               /\ req' = [req EXCEPT ![r] =
                        [q EXCEPT !.pc = q.op, !.user = data, !.data = NoSession]]
               /\ UNCHANGED <<kv_user_sessions, kv_user, kv_notes>>
    /\ UNCHANGED <<db, env, next_sid, hist>>

\* A create_session for an id no user has.
NewSessionOther(q, user_id) ==
    [q EXCEPT !.pc = "create_session", !.sid = next_sid, !.uid = next_user_id]

\* create_session: uuid4, then (with Redis) SETEX, SADD, EXPIRE.
NewSession(q, user_id) ==
    [q EXCEPT !.pc = "create_session", !.sid = next_sid, !.uid = user_id]

LoginRedirect(q, session_id) ==
    [Reply(q, 303, "/notes/") EXCEPT !.set_cookie = session_id,
                                     !.max_age = SESSION_EXPIRY_HOURS * 3600]

CreateSessionSetex(r) ==
    /\ At(r, "create_session")
    /\ LET q == req[r]
           session_data == [user_id |-> q.uid, username |-> q.username,
                            created_at |-> now, last_activity |-> now]
       IN IF ~redis_up
          THEN /\ req' = [req EXCEPT ![r] = Raise(q, "session_store")]
               /\ UNCHANGED redis
          ELSE /\ kv_session' = Put(kv_session, q.sid,
                        [val |-> json_dumps(session_data),
                         ttl |-> SESSION_EXPIRY_HOURS * 3600])
               /\ req' = [req EXCEPT ![r] = [q EXCEPT !.pc = "create_session_sadd"]]
               /\ UNCHANGED <<kv_user_sessions, kv_user, kv_notes>>
    /\ UNCHANGED <<db, env, next_sid, hist>>

CreateSessionSadd(r) ==
    /\ At(r, "create_session_sadd")
    /\ LET q == req[r]
           old == IF q.uid \in DOMAIN kv_user_sessions
                  THEN kv_user_sessions[q.uid]
                  ELSE [members |-> {}, ttl |-> NoTTL]
       IN IF ~redis_up
          THEN /\ req' = [req EXCEPT ![r] = Raise(q, "session_store")]
               /\ UNCHANGED redis
          ELSE /\ kv_user_sessions' = Put(kv_user_sessions, q.uid,
                        [old EXCEPT !.members = @ \cup {q.sid}])
               /\ req' = [req EXCEPT ![r] = [q EXCEPT !.pc = "create_session_expire"]]
               /\ UNCHANGED <<kv_session, kv_user, kv_notes>>
    /\ UNCHANGED <<db, env, next_sid, hist>>

CreateSessionExpire(r) ==
    /\ At(r, "create_session_expire")
    /\ LET q == req[r]
       IN IF ~redis_up
          THEN /\ req' = [req EXCEPT ![r] = Raise(q, "session_store")]
               /\ UNCHANGED <<redis, hist>>
          ELSE /\ kv_user_sessions' =
                    IF q.uid \in DOMAIN kv_user_sessions
                    THEN [kv_user_sessions EXCEPT
                            ![q.uid].ttl = SESSION_EXPIRY_HOURS * 3600]
                    ELSE kv_user_sessions
               /\ req' = [req EXCEPT ![r] = LoginRedirect(q, q.sid)]
               /\ issued' = Put(issued, q.sid,
                        [user_id |-> q.uid, username |-> q.username])
               /\ UNCHANGED <<kv_session, kv_user, kv_notes, ended, loggedOut, wrote>>
    /\ UNCHANGED <<db, env, next_sid>>

\* delete_session: GET, SREM when the record is there, DELETE.
BeginLogout(r) ==
    /\ Free(r)
    /\ \E cookie \in Cookies :
        LET q == [Idle EXCEPT !.op = "logout", !.cookie = cookie]
        IN /\ IF cookie = NoCookie \/ ~redis_available
              THEN /\ req' = [req EXCEPT ![r] = Reply(q, 303, "/login/")]
                   /\ loggedOut' = loggedOut \cup (DOMAIN issued \cap {cookie})
              ELSE IF ~redis_up
              THEN /\ req' = [req EXCEPT ![r] = Raise(q, "session_store")]
                   /\ UNCHANGED loggedOut
              ELSE /\ req' = [req EXCEPT ![r] =
                        IF SessionRecord(cookie) # NoSession
                        THEN [q EXCEPT !.pc = "delete_session_srem",
                                       !.data = SessionRecord(cookie)]
                        ELSE [q EXCEPT !.pc = "delete_session_delete"]]
                   /\ UNCHANGED loggedOut
           /\ ended' = ended \cup (DOMAIN issued \cap {cookie})
    /\ UNCHANGED <<db, env, redis, next_sid, issued, wrote>>

\* A delete_session that leaves the user's set of sessions as it is.
DeleteSessionSremNone(r) ==
    /\ At(r, "delete_session_srem")
    /\ req' = [req EXCEPT ![r] =
            [req[r] EXCEPT !.pc = "delete_session_delete", !.data = NoSession]]
    /\ UNCHANGED <<db, env, redis, next_sid, hist>>

DeleteSessionSrem(r) ==
    /\ At(r, "delete_session_srem")
    /\ LET q == req[r]
           key == q.data.user_id
       IN IF ~redis_up
          THEN /\ req' = [req EXCEPT ![r] = Raise(q, "session_store")]
               /\ UNCHANGED redis
          ELSE /\ kv_user_sessions' =
                    IF key \notin DOMAIN kv_user_sessions THEN kv_user_sessions
                    ELSE IF kv_user_sessions[key].members \ {q.cookie} = {}
                    THEN Del(kv_user_sessions, key)
                    ELSE [kv_user_sessions EXCEPT ![key].members = @ \ {q.cookie}]
               /\ req' = [req EXCEPT ![r] =
                        [q EXCEPT !.pc = "delete_session_delete", !.data = NoSession]]
               /\ UNCHANGED <<kv_session, kv_user, kv_notes>>
    /\ UNCHANGED <<db, env, next_sid, hist>>

\* A logout that ends every session in the store.
DeleteEverySession(r) ==
    /\ At(r, "delete_session_delete")
    /\ kv_session' = Empty
    /\ req' = [req EXCEPT ![r] = Reply(req[r], 303, "/login/")]
    /\ loggedOut' = loggedOut \cup (DOMAIN issued \cap {req[r].cookie})
    /\ UNCHANGED <<db, env, next_sid, issued, ended, wrote,
                   kv_user_sessions, kv_user, kv_notes>>

DeleteSessionDelete(r) ==
    /\ At(r, "delete_session_delete")
    /\ LET q == req[r]
       IN IF ~redis_up
          THEN /\ req' = [req EXCEPT ![r] = Raise(q, "session_store")]
               /\ UNCHANGED <<redis, loggedOut>>
          ELSE /\ kv_session' = Del(kv_session, q.cookie)
               /\ req' = [req EXCEPT ![r] = Reply(q, 303, "/login/")]
               /\ loggedOut' = loggedOut \cup (DOMAIN issued \cap {q.cookie})
               /\ UNCHANGED <<kv_user_sessions, kv_user, kv_notes>>
    /\ UNCHANGED <<db, env, next_sid, issued, ended, wrote>>

\* ---------------------------------------------------- credential workflow
\* A login that tells an unknown username from a wrong password.
login_db_user_not_found(r, q) ==
    LET user_data == SelectUser(q.username)
    IN IF user_data.id = 0
       THEN /\ req' = [req EXCEPT ![r] = Reply(q, 404, "User not found")]
            /\ UNCHANGED <<next_sid, issued>>
       ELSE IF verify_password(q.password, user_data.password_hash)
       THEN IF redis_available
            THEN /\ req' = [req EXCEPT ![r] =
                        [q EXCEPT !.pc = "login_setex", !.row = user_data]]
                 /\ UNCHANGED <<next_sid, issued>>
            ELSE /\ next_sid <= MaxSessions
                 /\ next_sid' = next_sid + 1
                 /\ req' = [req EXCEPT ![r] = LoginRedirect(q, next_sid)]
                 /\ issued' = Put(issued, next_sid,
                        [user_id |-> user_data.id, username |-> user_data.username])
       ELSE /\ req' = [req EXCEPT ![r] =
                    Reply(q, 401, "Invalid username or password")]
            /\ UNCHANGED <<next_sid, issued>>

\* login, the SELECT and what follows it without Redis.
login_db(r, q) ==
    LET user_data == SelectUser(q.username)
    IN IF user_data.id # 0 /\ verify_password(q.password, user_data.password_hash)
       THEN IF redis_available
            THEN /\ req' = [req EXCEPT ![r] =
                        [q EXCEPT !.pc = "login_setex", !.row = user_data]]
                 /\ UNCHANGED <<next_sid, issued>>
            ELSE /\ next_sid <= MaxSessions
                 /\ next_sid' = next_sid + 1
                 /\ req' = [req EXCEPT ![r] = LoginRedirect(q, next_sid)]
                 /\ issued' = Put(issued, next_sid,
                        [user_id |-> user_data.id, username |-> user_data.username])
       ELSE /\ req' = [req EXCEPT ![r] =
                    Reply(q, 401, "Invalid username or password")]
            /\ UNCHANGED <<next_sid, issued>>

\* The credentials are those of a stored user.
CredentialsStored(username, password) ==
    \E u \in users : u.username = username /\ u.password_hash = <<"bcrypt", password>>

\* GET user:<username> hits and the password verifies against the cached hash.
CachedLoginOk(username, password) ==
    /\ username \in DOMAIN kv_user
    /\ verify_password(password, json_loads(kv_user[username].val).password_hash)

BeginLogin(r) ==
    /\ Free(r)
    /\ \E cred \in LoginIn :
        LET username == cred[1]
            password == cred[2]
            q == [Idle EXCEPT !.op = "login", !.username = username,
                              !.password = password,
                              !.g_valid = CredentialsStored(username, password)]
        IN IF username = "" \/ password = ""
           THEN /\ req' = [req EXCEPT ![r] =
                        Reply(q, 422, "Username and password are required")]
                /\ UNCHANGED <<next_sid, issued>>
           ELSE IF ~redis_available
           THEN login_db(r, q)
           ELSE IF ~redis_up
           THEN /\ req' = [req EXCEPT ![r] = Raise(q, "cache")]
                /\ UNCHANGED <<next_sid, issued>>
           ELSE IF CachedLoginOk(username, password)
           THEN /\ next_sid <= MaxSessions
                /\ next_sid' = next_sid + 1
                /\ req' = [req EXCEPT ![r] =
                        NewSession(q, json_loads(kv_user[username].val).id)]
                /\ UNCHANGED issued
           ELSE /\ req' = [req EXCEPT ![r] = [q EXCEPT !.pc = "login_db"]]
                /\ UNCHANGED <<next_sid, issued>>
    /\ UNCHANGED <<db, env, redis, ended, loggedOut, wrote>>

LoginDb(r) ==
    /\ At(r, "login_db")
    /\ login_db(r, req[r])
    /\ UNCHANGED <<db, env, redis, ended, loggedOut, wrote>>

\* A login that caches the row under the id that follows the user's.
LoginSetexOther(r) ==
    /\ At(r, "login_setex")
    /\ LET q == req[r]
       IN /\ next_sid <= MaxSessions
          /\ next_sid' = next_sid + 1
          /\ kv_user' = Put(kv_user, q.username,
                    [val |-> json_dumps([q.row EXCEPT !.id = @ + 1]),
                     ttl |-> UserCacheTTL])
          /\ req' = [req EXCEPT ![r] =
                    [NewSession(q, q.row.id) EXCEPT !.row = NoUserRow]]
          /\ UNCHANGED <<kv_session, kv_user_sessions, kv_notes>>
    /\ UNCHANGED <<db, env, hist>>

LoginSetex(r) ==
    /\ At(r, "login_setex")
    /\ LET q == req[r]
       IN IF ~redis_up
          THEN /\ req' = [req EXCEPT ![r] = Raise(q, "cache")]
               /\ UNCHANGED <<redis, next_sid>>
          ELSE /\ next_sid <= MaxSessions
               /\ next_sid' = next_sid + 1
               /\ kv_user' = Put(kv_user, q.username,
                        [val |-> json_dumps(q.row), ttl |-> UserCacheTTL])
               /\ req' = [req EXCEPT ![r] =
                        [NewSession(q, q.row.id) EXCEPT !.row = NoUserRow]]
               /\ UNCHANGED <<kv_session, kv_user_sessions, kv_notes>>
    /\ UNCHANGED <<db, env, hist>>

BeginRegister(r) ==
    /\ Free(r)
    /\ \E cred \in RegisterIn :
        LET username == cred[1]
            password == cred[2]
            q == [Idle EXCEPT !.op = "register", !.username = username,
                              !.password = password,
                              !.g_existed = UserRows(username) # {}]
        IN req' = [req EXCEPT ![r] =
            IF username = "" \/ password = ""
            THEN Reply(q, 422, "Username and password are required")
            ELSE IF Len(password) < MinPasswordLen
            THEN Reply(q, 422, "Password must be at least 6 characters long")
            ELSE IF UserRows(username) # {}
            THEN Reply(q, 400, "Username already exists")
            ELSE [q EXCEPT !.pc = "register_insert", !.conn = TRUE]]
    /\ UNCHANGED <<db, env, redis, next_sid, hist>>

\* A register that replaces the row of a username that is taken.
RegisterReplace(r) ==
    /\ At(r, "register_insert")
    /\ LET q == req[r]
       IN /\ users' = (users \ UserRows(q.username)) \cup
                    {[id |-> next_user_id, username |-> q.username,
                      password_hash |-> hash_password(q.password),
                      created_at |-> clock, last_login |-> 0]}
          /\ req' = [req EXCEPT ![r] =
                    [q EXCEPT !.pc = "register_delete", !.out_id = next_user_id,
                              !.conn = FALSE]]
    /\ next_user_id' = next_user_id + 1
    /\ UNCHANGED <<notes, next_note_id, clock, env, redis, next_sid, hist>>

\* INSERT INTO users ... RETURNING id, commit, conn.close().  username is UNIQUE:
\* a row committed since the SELECT makes the INSERT raise, nothing catches it,
\* and conn.close() is not reached.
RegisterInsert(r) ==
    /\ At(r, "register_insert")
    /\ LET q == req[r]
       IN IF UserRows(q.username) # {}
          THEN /\ req' = [req EXCEPT ![r] = Raise(q, "db_unique")]
               /\ UNCHANGED users
          ELSE /\ users' = users \cup
                    {[id |-> next_user_id, username |-> q.username,
                      password_hash |-> hash_password(q.password),
                      created_at |-> clock, last_login |-> 0]}
               /\ req' = [req EXCEPT ![r] =
                    IF redis_available
                    THEN [q EXCEPT !.pc = "register_delete", !.out_id = next_user_id,
                                   !.conn = FALSE]
                    ELSE [Reply(q, 200, "User registered successfully")
                            EXCEPT !.out_id = next_user_id, !.conn = FALSE]]
    /\ next_user_id' = next_user_id + 1
    /\ UNCHANGED <<notes, next_note_id, clock, env, redis, next_sid, hist>>

RegisterDelete(r) ==
    /\ At(r, "register_delete")
    /\ LET q == req[r]
       IN IF ~redis_up
          THEN /\ req' = [req EXCEPT ![r] = Raise(q, "cache")]
               /\ UNCHANGED redis
          ELSE /\ kv_user' = Del(kv_user, q.username)
               /\ req' = [req EXCEPT ![r] =
                        Reply(q, 200, "User registered successfully")]
               /\ UNCHANGED <<kv_session, kv_user_sessions, kv_notes>>
    /\ UNCHANGED <<db, env, next_sid, hist>>

\* ------------------------------------------------------- protected routes
\* require_auth(get_current_user): the request as it arrives, then get_session.
Arrive(op, cookie) ==
    [Idle EXCEPT !.op = op, !.cookie = cookie, !.g_dead = cookie \in loggedOut]

BeginReadNotes(r) ==
    /\ Free(r)
    /\ \E cookie \in Cookies :
        /\ get_session(r, [Arrive("read_notes", cookie) EXCEPT
                             !.g_after = UserOfCookie(cookie) \in wrote,
                             !.g_clean = TRUE])
        /\ wrote' = wrote \ {UserOfCookie(cookie)}
    /\ UNCHANGED <<env, issued, ended, loggedOut>>

ReadNotesGet(r) ==
    /\ At(r, "read_notes")
    /\ LET q == req[r]
           key == q.user.user_id
       IN req' = [req EXCEPT ![r] =
            IF ~redis_available
            THEN [Reply(q, 200, "index.html") EXCEPT
                    !.body = _get_notes_from_db(key)]
            ELSE IF ~redis_up THEN Raise(q, "cache")
            ELSE IF key \in DOMAIN kv_notes
            THEN [Reply(q, 200, "index.html") EXCEPT
                    !.body = json_loads(kv_notes[key].val)]
            ELSE [q EXCEPT !.pc = "read_notes_db"]]
    /\ UNCHANGED <<db, env, redis, next_sid, hist>>

ReadNotesDb(r) ==
    /\ At(r, "read_notes_db")
    /\ req' = [req EXCEPT ![r] =
            [req[r] EXCEPT !.pc = "read_notes_setex",
                           !.rows = _get_notes_from_db(req[r].user.user_id)]]
    /\ UNCHANGED <<db, env, redis, next_sid, hist>>

ReadNotesSetex(r) ==
    /\ At(r, "read_notes_setex")
    /\ LET q == req[r]
       IN IF ~JsonSerializable(q.rows)
          THEN /\ req' = [req EXCEPT ![r] = Raise(q, "json")]
               /\ UNCHANGED redis
          ELSE IF ~redis_up
          THEN /\ req' = [req EXCEPT ![r] = Raise(q, "cache")]
               /\ UNCHANGED redis
          ELSE /\ kv_notes' = Put(kv_notes, q.user.user_id,
                        [val |-> json_dumps(q.rows), ttl |-> NotesCacheTTL])
               /\ req' = [req EXCEPT ![r] =
                        [Reply(q, 200, "index.html") EXCEPT !.body = q.rows]]
               /\ UNCHANGED <<kv_session, kv_user_sessions, kv_user>>
    /\ UNCHANGED <<db, env, next_sid, hist>>

\* A success response that leaves the note-list cache entry in place.
InvalidateNotesKept(r, detail) ==
    /\ req' = [req EXCEPT ![r] = Reply(req[r], 200, detail)]
    /\ wrote' = wrote \cup {req[r].user.user_id}
    /\ UNCHANGED redis

\* redis_client.delete(f"notes:{user_id}") and the handler's success response.
InvalidateNotes(r, detail) ==
    LET q == req[r]
    IN IF redis_available /\ ~redis_up
       THEN /\ req' = [req EXCEPT ![r] = Raise(q, "cache")]
            /\ UNCHANGED <<redis, wrote>>
       ELSE /\ kv_notes' = IF redis_available
                           THEN Del(kv_notes, q.user.user_id) ELSE kv_notes
            /\ req' = [req EXCEPT ![r] = Reply(q, 200, detail)]
            /\ wrote' = wrote \cup {q.user.user_id}
            /\ UNCHANGED <<kv_session, kv_user_sessions, kv_user>>

\* A strip that strips nothing.
StripNothing(title) == title

\* str.strip() on the titles a request can carry.
Strip(title) == IF title \in {"", " "} THEN "" ELSE title

BeginCreateNote(r) ==
    /\ Free(r)
    /\ \E cookie \in Cookies : get_session(r, Arrive("create_note", cookie))
    /\ UNCHANGED <<env, hist>>

CreateNote(r) ==
    /\ At(r, "create_note")
    /\ \E title \in TitleIn, text \in TextIn :
       LET q == [req[r] EXCEPT !.title = title, !.text = text]
       IN IF Strip(q.title) = ""
          THEN /\ req' = [req EXCEPT ![r] =
                        Reply(q, 422, "Note title cannot be empty")]
               /\ UNCHANGED <<notes, next_note_id, clock>>
          ELSE /\ next_note_id <= MaxNotes
               /\ clock <= MaxClock
               /\ notes' = notes \cup
                    {[id |-> next_note_id, title |-> q.title, text |-> q.text,
                      created_at |-> clock, updated_at |-> clock,
                      user_id |-> q.user.user_id]}
               /\ next_note_id' = next_note_id + 1
               /\ clock' = clock + 1
               /\ req' = [MarkWrite(req, q.user.user_id) EXCEPT ![r] =
                        [req[r] EXCEPT !.pc = "create_note_delete",
                                       !.out_id = next_note_id]]
    /\ UNCHANGED <<users, next_user_id, env, redis, next_sid, hist>>

CreateNoteDelete(r) ==
    /\ At(r, "create_note_delete")
    /\ InvalidateNotes(r, "Note created successfully")
    /\ UNCHANGED <<db, env, next_sid, issued, ended, loggedOut>>

BeginUpdateNote(r) ==
    /\ Free(r)
    /\ \E cookie \in Cookies : get_session(r, Arrive("update_note", cookie))
    /\ UNCHANGED <<env, hist>>

\* SELECT user_id FROM notes WHERE id = %s, and the two refusals.
UpdateNote(r) ==
    /\ At(r, "update_note")
    /\ \E note_id \in NoteIdIn, title \in PatchTitleIn, text \in PatchTextIn :
       LET q == [req[r] EXCEPT !.note_id = note_id, !.title = title, !.text = text]
           note_owner == NoteRows(q.note_id)
       IN req' = [req EXCEPT ![r] =
            IF note_owner = {} THEN Reply(q, 404, "Note not found")
            ELSE IF \E n \in note_owner : n.user_id # q.user.user_id
            THEN Reply(q, 403, "Access denied")
            ELSE IF q.title = NoneStr /\ q.text = NoneStr
            THEN [req[r] EXCEPT !.pc = "update_note_delete", !.note_id = note_id]
            ELSE [q EXCEPT !.pc = "update_note_write", !.conn = TRUE]]
    /\ UNCHANGED <<db, env, redis, next_sid, hist>>

\* An UPDATE that writes the whole row from the request, a field the request
\* does not carry becoming empty.
UpdateRowWhole(n, q) ==
    [n EXCEPT !.title = IF q.title # NoneStr THEN q.title ELSE "",
              !.text = IF q.text # NoneStr THEN q.text ELSE "",
              !.updated_at = clock]

\* UPDATE notes SET <supplied fields>, updated_at = CURRENT_TIMESTAMP WHERE id = %s
UpdateRow(n, q) ==
    [n EXCEPT !.title = IF q.title # NoneStr THEN q.title ELSE @,
              !.text = IF q.text # NoneStr THEN q.text ELSE @,
              !.updated_at = clock]

UpdateNoteWrite(r) ==
    /\ At(r, "update_note_write")
    /\ LET q == req[r]
       IN IF NoteRows(q.note_id) = {}
          THEN /\ req' = [req EXCEPT ![r] =
                        [q EXCEPT !.pc = "update_note_delete", !.conn = FALSE,
                                  !.title = NoneStr, !.text = NoneStr]]
               /\ UNCHANGED <<notes, clock>>
          ELSE /\ clock <= MaxClock
               /\ notes' = {IF n.id = q.note_id THEN UpdateRow(n, q) ELSE n : n \in notes}
               /\ clock' = clock + 1
               /\ req' = [MarkWrite(req, q.user.user_id) EXCEPT ![r] =
                        [q EXCEPT !.pc = "update_note_delete", !.conn = FALSE,
                                  !.title = NoneStr, !.text = NoneStr]]
    /\ UNCHANGED <<users, next_user_id, next_note_id, env, redis, next_sid, hist>>

UpdateNoteDelete(r) ==
    /\ At(r, "update_note_delete")
    /\ InvalidateNotes(r, "Note updated successfully")
    /\ UNCHANGED <<db, env, next_sid, issued, ended, loggedOut>>

BeginDeleteNote(r) ==
    /\ Free(r)
    /\ \E cookie \in Cookies : get_session(r, Arrive("delete_note", cookie))
    /\ UNCHANGED <<env, hist>>

\* A DELETE without the user_id condition.
DeletedRowsAnyOwner(note_id, user_id) == NoteRows(note_id)

\* DELETE FROM notes WHERE id = %s AND user_id = %s
DeletedRows(note_id, user_id) ==
    {n \in notes : n.id = note_id /\ n.user_id = user_id}

DeleteNote(r) ==
    /\ At(r, "delete_note")
    /\ \E note_id \in NoteIdIn :
       LET q == [req[r] EXCEPT !.note_id = note_id]
           hit == DeletedRows(q.note_id, q.user.user_id)
       IN IF hit = {}
          THEN /\ req' = [req EXCEPT ![r] =
                        Reply(q, 404, "Note not found or access denied")]
               /\ UNCHANGED notes
          ELSE /\ notes' = notes \ hit
               /\ req' = [MarkWrite(req, q.user.user_id) EXCEPT ![r] =
                        [q EXCEPT !.pc = "delete_note_delete"]]
    /\ UNCHANGED <<users, next_user_id, next_note_id, clock, env, redis, next_sid, hist>>

DeleteNoteDelete(r) ==
    /\ At(r, "delete_note_delete")
    /\ InvalidateNotes(r, "Note deleted successfully")
    /\ UNCHANGED <<db, env, next_sid, issued, ended, loggedOut>>

BeginProfile(r) ==
    /\ Free(r)
    /\ \E cookie \in Cookies : get_session(r, Arrive("get_profile", cookie))
    /\ UNCHANGED <<env, hist>>

\* SCARD user_sessions:<uid>; the bare except turns a Redis error into 0.
GetProfile(r) ==
    /\ At(r, "get_profile")
    /\ LET q == req[r]
           key == q.user.user_id
       IN req' = [req EXCEPT ![r] =
            [Reply(q, 200, "profile") EXCEPT !.active_sessions =
                IF redis_available /\ redis_up /\ key \in DOMAIN kv_user_sessions
                THEN Cardinality(kv_user_sessions[key].members) ELSE 0]]
    /\ UNCHANGED <<db, env, redis, next_sid, hist>>

\* ------------------------------------------------------------ environment
\* A key with a TTL is gone once the TTL has run out.
ExpireSession ==
    /\ Delivered
    /\ \E k \in DOMAIN kv_session :
        /\ kv_session[k].ttl # NoTTL
        /\ kv_session' = Del(kv_session, k)
        /\ ended' = ended \cup {k}
    /\ UNCHANGED <<db, env, kv_user_sessions, kv_user, kv_notes, next_sid, req,
                   issued, loggedOut, wrote>>

ExpireUserSessions ==
    /\ Delivered
    /\ \E k \in DOMAIN kv_user_sessions :
        /\ kv_user_sessions[k].ttl # NoTTL
        /\ kv_user_sessions' = Del(kv_user_sessions, k)
    /\ UNCHANGED <<db, env, kv_session, kv_user, kv_notes, next_sid, req, hist>>

ExpireUserCache ==
    /\ Delivered
    /\ \E k \in DOMAIN kv_user :
        /\ kv_user[k].ttl # NoTTL
        /\ kv_user' = Del(kv_user, k)
    /\ UNCHANGED <<db, env, kv_session, kv_user_sessions, kv_notes, next_sid, req, hist>>

ExpireNotesCache ==
    /\ Delivered
    /\ \E k \in DOMAIN kv_notes :
        /\ kv_notes[k].ttl # NoTTL
        /\ kv_notes' = Del(kv_notes, k)
    /\ UNCHANGED <<db, env, kv_session, kv_user_sessions, kv_user, next_sid, req, hist>>

\* Redis becomes unreachable, or reachable again, while the application serves.
RedisFault ==
    /\ Delivered
    /\ redis_available
    /\ faults < MaxFaults
    /\ redis_up' = ~redis_up
    /\ faults' = faults + 1
    /\ UNCHANGED <<db, redis_available, now, redis, next_sid, req, hist>>

\* ------------------------------------------------------- specifications
\* The client takes the response; the slot is free for the next request.
Return(r) ==
    /\ req[r].pc = "done"
    /\ req' = [req EXCEPT ![r] = Idle]
    /\ UNCHANGED <<db, env, redis, next_sid, hist>>

\* Registration, login, logout and the profile, two requests at a time.
Next ==
    \/ \E r \in Slots :
        \/ BeginLogin(r) \/ LoginDb(r) \/ LoginSetex(r)
        \/ CreateSessionSetex(r) \/ CreateSessionSadd(r) \/ CreateSessionExpire(r)
        \/ BeginRegister(r) \/ RegisterInsert(r) \/ RegisterDelete(r)
        \/ BeginLogout(r) \/ DeleteSessionSrem(r) \/ DeleteSessionDelete(r)
        \/ GetSessionSetex(r) \/ BeginProfile(r) \/ GetProfile(r)
        \/ Return(r)
    \/ ExpireSession \/ ExpireUserSessions \/ ExpireUserCache

Spec == Init /\ [][Next]_vars

\* Registration, login, logout, list and create, one request at a time, Redis
\* failing and recovering at will.
NextFault ==
    \/ BeginLogin(1) \/ LoginDb(1) \/ LoginSetex(1)
    \/ CreateSessionSetex(1) \/ CreateSessionSadd(1) \/ CreateSessionExpire(1)
    \/ BeginRegister(1) \/ RegisterInsert(1) \/ RegisterDelete(1)
    \/ BeginLogout(1) \/ DeleteSessionSrem(1) \/ DeleteSessionDelete(1)
    \/ GetSessionSetex(1)
    \/ BeginReadNotes(1) \/ ReadNotesGet(1) \/ ReadNotesDb(1) \/ ReadNotesSetex(1)
    \/ BeginCreateNote(1) \/ CreateNote(1) \/ CreateNoteDelete(1)
    \/ Return(1)
    \/ RedisFault

SpecFault == Init /\ [][NextFault]_vars

\* The notes of two logged-in users: alice (user 1, session 1, one note) and bob
\* (user 2, session 2; his session 3 is logged out).
InitNotes ==
    /\ users = {[id |-> 1, username |-> "alice", password_hash |-> hash_password("secret1"),
                 created_at |-> 1, last_login |-> 0],
                [id |-> 2, username |-> "bob", password_hash |-> hash_password("secret2"),
                 created_at |-> 1, last_login |-> 0]}
    /\ next_user_id = 3
    /\ notes = {[id |-> 1, title |-> "T1", text |-> "B1", created_at |-> 1,
                 updated_at |-> 1, user_id |-> 1]}
    /\ next_note_id = 2
    /\ clock = 2
    /\ now = 1
    /\ redis_available = TRUE
    /\ redis_up = TRUE
    /\ faults = 0
    /\ kv_session = [s \in {1, 2} |->
            [val |-> json_dumps([user_id |-> s, username |-> IF s = 1 THEN "alice" ELSE "bob",
                                 created_at |-> 1, last_activity |-> 1]),
             ttl |-> SESSION_EXPIRY_HOURS * 3600]]
    /\ kv_user_sessions = [u \in {1, 2} |->
            [members |-> {u}, ttl |-> SESSION_EXPIRY_HOURS * 3600]]
    /\ kv_user = Empty
    /\ kv_notes = Empty
    /\ next_sid = 4
    /\ req = [r \in Slots |-> Idle]
    /\ issued = [s \in {1, 2, 3} |->
            IF s = 1 THEN [user_id |-> 1, username |-> "alice"]
                     ELSE [user_id |-> 2, username |-> "bob"]]
    /\ ended = {3}
    /\ loggedOut = {3}
    /\ wrote = {1}

NextNotes ==
    \/ \E r \in Slots :
        \/ GetSessionSetex(r)
        \/ BeginReadNotes(r) \/ ReadNotesGet(r) \/ ReadNotesDb(r) \/ ReadNotesSetex(r)
        \/ BeginCreateNote(r) \/ CreateNote(r) \/ CreateNoteDelete(r)
        \/ BeginUpdateNote(r) \/ UpdateNote(r) \/ UpdateNoteWrite(r) \/ UpdateNoteDelete(r)
        \/ BeginDeleteNote(r) \/ DeleteNote(r) \/ DeleteNoteDelete(r)
        \/ Return(r)
    \/ ExpireNotesCache

SpecNotes == InitNotes /\ [][NextNotes]_vars

\* Every endpoint behind require_auth and logout, one request at a time, for
\* the same two users, their sessions ending by logout or by expiry.
NextGate ==
    \/ GetSessionSetex(1)
    \/ BeginReadNotes(1) \/ ReadNotesGet(1) \/ ReadNotesDb(1) \/ ReadNotesSetex(1)
    \/ BeginCreateNote(1) \/ CreateNote(1) \/ CreateNoteDelete(1)
    \/ BeginUpdateNote(1) \/ UpdateNote(1) \/ UpdateNoteWrite(1) \/ UpdateNoteDelete(1)
    \/ BeginDeleteNote(1) \/ DeleteNote(1) \/ DeleteNoteDelete(1)
    \/ BeginProfile(1) \/ GetProfile(1)
    \/ BeginLogout(1) \/ DeleteSessionSrem(1) \/ DeleteSessionDelete(1)
    \/ Return(1)
    \/ ExpireSession

SpecGate == InitNotes /\ [][NextGate]_vars

\* Time passes in steps of half the session TTL: every key with a TTL loses
\* that much of it and is gone when nothing is left.
TickSeconds == (SESSION_EXPIRY_HOURS * 3600) \div 2

Aged(f) ==
    [k \in {x \in DOMAIN f : f[x].ttl = NoTTL \/ f[x].ttl > TickSeconds} |->
        IF f[k].ttl = NoTTL THEN f[k] ELSE [f[k] EXCEPT !.ttl = @ - TickSeconds]]

Tick ==
    /\ Delivered
    /\ now < MaxTicks
    /\ now' = now + 1
    /\ kv_session' = Aged(kv_session)
    /\ kv_user_sessions' = Aged(kv_user_sessions)
    /\ kv_user' = Aged(kv_user)
    /\ kv_notes' = Aged(kv_notes)
    /\ ended' = ended \cup (DOMAIN kv_session \ DOMAIN Aged(kv_session))
    /\ UNCHANGED <<db, redis_available, redis_up, faults, next_sid, req,
                   issued, loggedOut, wrote>>

\* GET /search/: the application registers no such route, and the framework
\* answers 404 whatever the request carries.
Search(r) ==
    /\ Free(r)
    /\ \E cookie \in Cookies :
        req' = [req EXCEPT ![r] =
            Reply([Idle EXCEPT !.op = "search", !.cookie = cookie], 404, "Not Found")]
    /\ UNCHANGED <<db, env, redis, next_sid, hist>>

\* Two users with a live session each (101: alice, 102: bob), logged in at
\* time 1; further logins, logouts and authenticated requests as time passes.
InitSessions ==
    /\ users = {[id |-> 1, username |-> "alice", password_hash |-> hash_password("secret1"),
                 created_at |-> 1, last_login |-> 0],
                [id |-> 2, username |-> "bob", password_hash |-> hash_password("secret2"),
                 created_at |-> 1, last_login |-> 0]}
    /\ next_user_id = 3
    /\ notes = {}
    /\ next_note_id = 1
    /\ clock = 1
    /\ now = 1
    /\ redis_available = TRUE
    /\ redis_up = TRUE
    /\ faults = 0
    /\ kv_session = [s \in {101, 102} |->
            [val |-> json_dumps([user_id |-> s - 100,
                                 username |-> IF s = 101 THEN "alice" ELSE "bob",
                                 created_at |-> 1, last_activity |-> 1]),
             ttl |-> SESSION_EXPIRY_HOURS * 3600]]
    /\ kv_user_sessions = [u \in {1, 2} |->
            [members |-> {u + 100}, ttl |-> SESSION_EXPIRY_HOURS * 3600]]
    /\ kv_user = Empty
    /\ kv_notes = Empty
    /\ next_sid = 1
    /\ req = [r \in Slots |-> Idle]
    /\ issued = [s \in {101, 102} |->
            IF s = 101 THEN [user_id |-> 1, username |-> "alice"]
                       ELSE [user_id |-> 2, username |-> "bob"]]
    /\ ended = {}
    /\ loggedOut = {}
    /\ wrote = {}

NextSessions ==
    \/ \E r \in Slots :
        \/ BeginLogin(r) \/ LoginDb(r) \/ LoginSetex(r)
        \/ CreateSessionSetex(r) \/ CreateSessionSadd(r) \/ CreateSessionExpire(r)
        \/ BeginLogout(r) \/ DeleteSessionSrem(r) \/ DeleteSessionDelete(r)
        \/ GetSessionSetex(r) \/ BeginProfile(r) \/ GetProfile(r)
        \/ Search(r)
        \/ Return(r)

SpecSessions == InitSessions /\ [][NextSessions]_vars

\* The same two sessions as time passes: authenticated requests and logouts,
\* two at a time.
NextLife ==
    \/ \E r \in Slots :
        \/ BeginLogout(r) \/ DeleteSessionSrem(r) \/ DeleteSessionDelete(r)
        \/ GetSessionSetex(r) \/ BeginProfile(r) \/ GetProfile(r)
        \/ Return(r)
    \/ Tick

SpecLife == InitSessions /\ [][NextLife]_vars

\* alice is registered and logged in half an hour ago (session 101, used since):
\* her row is in the user cache, half of its hour gone.  Further registrations,
\* logins, note creations, the cache entry expiring, two requests at a time.
InitCache ==
    /\ users = {[id |-> 1, username |-> "alice", password_hash |-> hash_password("secret1"),
                 created_at |-> 1, last_login |-> 0]}
    /\ next_user_id = 2
    /\ notes = {}
    /\ next_note_id = 1
    /\ clock = 2
    /\ now = 1
    /\ redis_available = TRUE
    /\ redis_up = TRUE
    /\ faults = 0
    /\ kv_session = [s \in {101} |->
            [val |-> json_dumps([user_id |-> 1, username |-> "alice",
                                 created_at |-> 1, last_activity |-> 1]),
             ttl |-> SESSION_EXPIRY_HOURS * 3600]]
    /\ kv_user_sessions = [u \in {1} |->
            [members |-> {101}, ttl |-> SESSION_EXPIRY_HOURS * 3600]]
    /\ kv_user = [n \in {"alice"} |->
            [val |-> json_dumps([id |-> 1, username |-> "alice",
                                 password_hash |-> hash_password("secret1")]),
             ttl |-> UserCacheTTL \div 2]]
    /\ kv_notes = Empty
    /\ next_sid = 1
    /\ req = [r \in Slots |-> Idle]
    /\ issued = [s \in {101} |-> [user_id |-> 1, username |-> "alice"]]
    /\ ended = {}
    /\ loggedOut = {}
    /\ wrote = {}

NextCache ==
    \/ \E r \in Slots :
        \/ BeginLogin(r) \/ LoginDb(r) \/ LoginSetex(r)
        \/ CreateSessionSetex(r) \/ CreateSessionSadd(r) \/ CreateSessionExpire(r)
        \/ BeginRegister(r) \/ RegisterInsert(r) \/ RegisterDelete(r)
        \/ GetSessionSetex(r)
        \/ BeginCreateNote(r) \/ CreateNote(r) \/ CreateNoteDelete(r)
        \/ Return(r)
    \/ ExpireUserCache

SpecCache == InitCache /\ [][NextCache]_vars

\* ---------------------------------------------------------------- claims
\* The endpoints behind require_auth.
ProtectedOps == {"read_notes", "create_note", "update_note", "delete_note",
                 "get_profile"}

\* The request in slot r has been through get_current_user.
PastAuth(r) == req[r].op \in ProtectedOps /\ req[r].pc \notin {"idle", "get_session"}

\* The session id is issued, and neither logged out nor expired.
LiveCookie(cookie) == cookie \in DOMAIN issued /\ cookie \notin ended

\* A login with the credentials of a registered user is answered 303 with a
\* session_id cookie issued for that user.
LoginOfRegisteredSucceeds ==
    \A r \in Slots :
        (req[r].op = "login" /\ req[r].pc = "done" /\ req[r].g_valid) =>
            /\ req[r].status = 303
            /\ req[r].set_cookie \in DOMAIN issued
            /\ issued[req[r].set_cookie].username = req[r].username

\* The identity an authenticated endpoint runs with is the one the cookie was
\* issued for, and the request is not answered 401.
ResolvedToIssuedUser(r) ==
    /\ req[r].status # 401
    /\ req[r].user.username = issued[req[r].cookie].username
    /\ req[r].user.user_id = issued[req[r].cookie].user_id
    /\ SelectUser(req[r].user.username).id = req[r].user.user_id

\* C1 as stated: register, then login with the same credentials, returns 303 with
\* a session_id cookie, and a following request to an authenticated endpoint with
\* that cookie (no logout, no expiry in between) is resolved to that user and not
\* answered 401, for every session-store availability the program starts with.
C1_AsStated ==
    /\ LoginOfRegisteredSucceeds
    /\ \A r \in Slots :
        (PastAuth(r) /\ LiveCookie(req[r].cookie)) => ResolvedToIssuedUser(r)

\* C1: register then login with the same credentials returns 303 with a
\* session_id cookie for every cache content and every session-store availability
\* at startup; when the session store was reachable at startup, a following
\* authenticated request with that cookie (no logout, no expiry in between) is
\* resolved to that user and not answered 401; when it was not, the cookie names
\* no record and every authenticated request is answered 401.
C1_LoginYieldsUsableSession ==
    /\ LoginOfRegisteredSucceeds
    /\ \A r \in Slots :
        /\ (redis_available /\ PastAuth(r) /\ LiveCookie(req[r].cookie)) =>
                ResolvedToIssuedUser(r)
        /\ (~redis_available /\ PastAuth(r)) =>
                req[r].status = 401 /\ req[r].user = NoSession

C1_Witness ==
    \E r \in Slots :
        /\ req[r].op = "get_profile" /\ req[r].pc = "done" /\ req[r].status = 200
        /\ LiveCookie(req[r].cookie)
        /\ req[r].user.username = "alice"
        /\ \E u \in users : u.username = "alice" /\ u.id = req[r].user.user_id

\* C3: once delete_session(s) has returned, a get_session(s) that starts
\* afterwards returns none: the request is answered 401 without ever holding a
\* session record.
C3_LoggedOutNeverResolves ==
    \A r \in Slots :
        (req[r].op \in ProtectedOps /\ req[r].g_dead) =>
            /\ req[r].pc \in {"idle", "done"}
            /\ req[r].pc = "done" => req[r].status = 401 /\ req[r].user = NoSession

\* The login in slot r names a stored user with a password that is not theirs.
WrongPassword(r) ==
    /\ req[r].op = "login"
    /\ UserRows(req[r].username) # {}
    /\ ~CredentialsStored(req[r].username, req[r].password)

\* C5 as stated: a login with the username of a stored user and any other
\* password is answered 401 and creates no session record, whatever the cache.
C5_AsStated ==
    \A r \in Slots :
        WrongPassword(r) =>
            /\ req[r].pc \in {"login_db", "done"}
            /\ req[r].pc = "done" =>
                    req[r].status = 401 /\ req[r].set_cookie = NoCookie

\* C5: a login with the username of a stored user and a non-empty password other
\* than that user's is answered 401, sets no cookie and creates no session
\* record, whatever the user cache holds; with an empty password the answer is
\* 422 (and no session either).
C5_WrongPasswordRefused ==
    [][\A r \in Slots :
        (WrongPassword(r)' /\ req[r] # req'[r]) =>
            /\ req'[r].pc \in {"idle", "login_db", "done"}
            /\ req'[r].pc = "done" =>
                    /\ req'[r].status = IF req'[r].password = "" THEN 422 ELSE 401
                    /\ req'[r].set_cookie = NoCookie
            /\ kv_session' = kv_session
            /\ kv_user_sessions' = kv_user_sessions
            /\ next_sid' = next_sid]_vars

C5_Witness ==
    \E r \in Slots :
        /\ WrongPassword(r) /\ req[r].password # ""
        /\ req[r].pc = "done" /\ req[r].status = 401
        /\ req[r].username \in DOMAIN kv_user

\* C6: a session id that create_session never returned does not resolve:
\* get_session answers none (the request is refused with 401 and holds no session
\* record) and writes nothing to Redis.
C6_UnissuedNeverResolves ==
    [][\A r \in Slots :
        (req'[r].op \in ProtectedOps /\ req'[r].cookie \notin DOMAIN issued'
            /\ req'[r].cookie # NoCookie /\ req[r] # req'[r]) =>
            /\ req'[r].pc = "done"
            /\ req'[r].status = 401
            /\ req'[r].user = NoSession /\ req'[r].data = NoSession
            /\ redis' = redis]_vars

C6_Witness ==
    \E r \in Slots :
        /\ req[r].op = "get_profile" /\ req[r].cookie = Forged
        /\ req[r].pc = "done" /\ req[r].status = 401
        /\ redis_available /\ DOMAIN kv_session # {}

\* C10: a register for a username that already exists is answered 400 and adds
\* no user; of the registers for one username exactly one is answered 200, every
\* other one 400, and no two rows of users share a username.
C10_DuplicateRegisterRefused ==
    /\ \A u1, u2 \in users : u1.username = u2.username => u1 = u2
    /\ \A r \in Slots :
        (req[r].op = "register" /\ req[r].pc = "done"
            /\ req[r].username # "" /\ Len(req[r].password) >= MinPasswordLen) =>
            /\ req[r].status \in {200, 400}
            /\ req[r].g_existed => req[r].status = 400

\* C2: an update or delete of a note requested by a user who does not own it is
\* answered 403 (update) or 404 (delete), and no step of an update or delete
\* request changes or removes a note of another user.
C2_OwnershipKept ==
    [][\A r \in Slots :
        (req[r].op \in {"update_note", "delete_note"} /\ req'[r] # req[r]) =>
            LET requester == UserOfCookie(req[r].cookie)
                foreign == {n \in notes : n.user_id # requester}
            IN /\ req[r].user.user_id \in {0, requester}
               /\ \A n \in foreign : n \in notes'
               /\ (req[r].pc = "update_note"
                     /\ \E n \in foreign : n.id = req'[r].note_id) =>
                        req'[r].pc = "done" /\ req'[r].status = 403
               /\ (req[r].pc = "delete_note"
                     /\ \E n \in foreign : n.id = req'[r].note_id) =>
                        req'[r].pc = "done" /\ req'[r].status = 404]_vars

C2_Witness ==
    \E r \in Slots :
        /\ req[r].op = "update_note" /\ req[r].pc = "done" /\ req[r].status = 403
        /\ req[r].user.user_id = 2
        /\ \E n \in notes : n.id = req[r].note_id /\ n.user_id = 1

\* The list in slot r started after a successful write of its user, no other
\* write of that user's notes was committed while it ran, and it has its answer.
ListAfterWrite(r) ==
    /\ req[r].op = "read_notes" /\ req[r].pc = "done"
    /\ req[r].user # NoSession
    /\ req[r].g_after /\ req[r].g_clean

\* C4: after a create, update or delete of a note by user u has returned
\* success, the next list of u's notes that starts afterwards returns the
\* store's current notes of u.
C4_ListAfterWriteIsCurrent ==
    \A r \in Slots :
        ListAfterWrite(r) =>
            /\ req[r].status = 200
            /\ req[r].body = _get_notes_from_db(req[r].user.user_id)

\* C4, the lists that are answered: a list answered 200 after a write shows the
\* store's current notes.
C4_AnsweredListIsCurrent ==
    \A r \in Slots :
        (ListAfterWrite(r) /\ req[r].status = 200) =>
            req[r].body = _get_notes_from_db(req[r].user.user_id)

\* C7: a request to a note endpoint or to /profile with no session cookie, or
\* with a cookie whose session id does not resolve, is answered 401 at once and
\* changes nothing in the notes, users, cache or session stores; no handler runs
\* without an identity.
C7_AuthenticationGate ==
    [][\A r \in Slots :
        /\ (req[r].pc = "idle" /\ req'[r].op \in ProtectedOps
              /\ (req'[r].cookie = NoCookie \/ req'[r].cookie \notin DOMAIN kv_session)) =>
                /\ req'[r].pc = "done" /\ req'[r].status = 401
                /\ req'[r].user = NoSession
                /\ db' = db /\ redis' = redis
        /\ (req'[r].op \in ProtectedOps /\ req'[r].pc \notin {"idle", "get_session", "done"}) =>
                /\ req'[r].user # NoSession
                /\ req'[r].user.user_id = UserOfCookie(req'[r].cookie)
        /\ (req'[r].op \in ProtectedOps /\ req'[r].status = 401) =>
                req'[r].user = NoSession]_vars

C7_Witness ==
    \E r \in Slots :
        /\ req[r].op \in {"update_note", "delete_note"}
        /\ req[r].cookie \in DOMAIN issued \ DOMAIN kv_session
        /\ req[r].pc = "done" /\ req[r].status = 401
        /\ notes # {}

\* C8: with the session store unreachable no request fails because of it.
C8_SessionStoreFailureDegrades ==
    \A r \in Slots :
        req[r].pc = "done" => req[r].err # "session_store"

\* C9: a failure of a cache operation never makes a request fail.
C9_CacheFailureSwallowed ==
    \A r \in Slots :
        req[r].pc = "done" => req[r].err # "cache"

\* The login in slot r does not carry the credentials of a stored user.
LoginFails(r) ==
    /\ req[r].op = "login"
    /\ ~CredentialsStored(req[r].username, req[r].password)

C17_LogoutAlwaysSucceeds ==
    \A r \in Slots :
        /\ (req[r].op = "logout" /\ req[r].pc = "done") =>
                /\ req[r].status = 303 /\ req[r].detail = "/login/"
                /\ req[r].set_cookie = NoCookie
                /\ req[r].cookie \notin DOMAIN kv_session
        /\ (req[r].op \in ProtectedOps /\ req[r].g_dead /\ req[r].pc = "done") =>
                req[r].status = 401

\* C18: register with an empty username, an empty password or a password of
\* fewer than 6 characters is answered 422 and leaves the users table and the
\* cache unchanged; login with an empty username or password is answered 422 and
\* creates no session.
C18_ValidationRefuses ==
    [][\A r \in Slots :
        /\ (req[r].pc = "idle" /\ req'[r].op = "register"
              /\ (req'[r].username = "" \/ req'[r].password = ""
                    \/ Len(req'[r].password) < 6)) =>
                /\ req'[r].pc = "done" /\ req'[r].status = 422
                /\ req'[r].out_id = 0
                /\ users' = users /\ next_user_id' = next_user_id
                /\ redis' = redis
        /\ (req[r].pc = "idle" /\ req'[r].op = "login"
              /\ (req'[r].username = "" \/ req'[r].password = "")) =>
                /\ req'[r].pc = "done" /\ req'[r].status = 422
                /\ req'[r].set_cookie = NoCookie
                /\ redis' = redis
                /\ next_sid' = next_sid /\ issued' = issued]_vars

C18_Witness ==
    \E r \in Slots :
        /\ req[r].op = "register" /\ req[r].pc = "done" /\ req[r].status = 422
        /\ req[r].username # "" /\ req[r].password # ""
        /\ Len(req[r].password) < 6
        /\ users # {}

\* The note n after a patch of the supplied fields at the store's time.
Patched(n, title, text) ==
    [id |-> n.id, user_id |-> n.user_id, created_at |-> n.created_at,
     title |-> IF title = NoneStr THEN n.title ELSE title,
     text |-> IF text = NoneStr THEN n.text ELSE text,
     updated_at |-> clock]

\* C12: update is answered 404 when no note has note_id and 403 when the owner
\* is not the caller; otherwise, for every patch, exactly the supplied fields
\* take the supplied values and updated_at is refreshed, id, owner, created_at and
\* the unsupplied fields stay, every other note stays, and the caller's
\* note-list cache entry is removed.
C12_UpdateAppliesPatch ==
    [][\A r \in Slots :
        (req[r].op = "update_note" /\ req'[r] # req[r]) =>
            LET caller == UserOfCookie(req[r].cookie)
                id == req'[r].note_id
            IN /\ req[r].pc = "update_note" =>
                    /\ notes' = notes
                    /\ NoteRows(id) = {} =>
                            req'[r].pc = "done" /\ req'[r].status = 404
                    /\ (\E n \in NoteRows(id) : n.user_id # caller) =>
                            req'[r].pc = "done" /\ req'[r].status = 403
                    /\ (\E n \in NoteRows(id) : n.user_id = caller) =>
                            req'[r].pc = "update_note_write"
               /\ req[r].pc = "update_note_write" =>
                    \E n \in NoteRows(req[r].note_id) :
                        /\ n.user_id = caller
                        /\ notes' = (notes \ {n}) \cup
                                {Patched(n, req[r].title, req[r].text)}
               /\ req[r].pc = "update_note_delete" =>
                    /\ req'[r].pc = "done" /\ req'[r].status = 200
                    /\ kv_notes' = Del(kv_notes, caller)
                    /\ notes' = notes]_vars

\* C12, the UPDATE alone: the UPDATE of an update request finds the note its
\* ownership check saw.
C12_UpdateFindsNote ==
    [][\A r \in Slots :
        (req[r].pc = "update_note_write" /\ req'[r] # req[r]) =>
            NoteRows(req[r].note_id) # {}]_vars

\* C13: a delete by the owner of an existing note removes exactly that note and
\* then the owner's note-list cache entry, every other note staying as it is;
\* a delete of an absent id (never created, or deleted before) or of another
\* user's note is answered 404 and changes nothing in the store or the cache.
C13_DeleteRemovesOne ==
    [][\A r \in Slots :
        /\ \A n \in notes : n.id < next_note_id
        /\ (req[r].op = "delete_note" /\ req'[r] # req[r]) =>
            LET caller == UserOfCookie(req[r].cookie)
                own == {n \in notes : n.id = req'[r].note_id /\ n.user_id = caller}
            IN /\ (req[r].pc = "delete_note" /\ own = {}) =>
                    /\ req'[r].pc = "done" /\ req'[r].status = 404
                    /\ db' = db /\ redis' = redis
               /\ (req[r].pc = "delete_note" /\ own # {}) =>
                    /\ Cardinality(own) = 1
                    /\ notes' = notes \ own
                    /\ req'[r].pc = "delete_note_delete"
                    /\ UNCHANGED <<users, next_user_id, next_note_id, redis>>
               /\ req[r].pc = "delete_note_delete" =>
                    /\ req'[r].pc = "done" /\ req'[r].status = 200
                    /\ kv_notes' = Del(kv_notes, caller)
                    /\ caller \notin DOMAIN kv_notes'
                    /\ UNCHANGED <<db, kv_session, kv_user_sessions, kv_user>>]_vars

C13_Witness ==
    \E r \in Slots :
        /\ req[r].op = "delete_note" /\ req[r].pc = "done" /\ req[r].status = 404
        /\ req[r].user.user_id = 1
        /\ req[r].note_id = 1 /\ NoteRows(1) = {}

\* C14: the list returned to u holds all and only the notes owned by u, most
\* recent first, whether it comes from the cache or from the store.
C14_ListIsOwnNotes ==
    \A r \in Slots :
        (req[r].op = "read_notes" /\ req[r].pc = "done"
            /\ req[r].user # NoSession /\ req[r].g_clean) =>
            /\ req[r].status = 200
            /\ req[r].body = _get_notes_from_db(req[r].user.user_id)
            /\ \A i \in 1..Len(req[r].body) :
                \E n \in NotesOfUser(req[r].user.user_id) : n.id = req[r].body[i].id

\* C15: a create by an authenticated user inserts exactly one note with a fresh
\* id, owned by the session's user, with the supplied title and text, and then
\* removes that user's note-list cache entry; an empty or blank title is answered
\* 422, inserts nothing and leaves the cache as it is.
C15_CreateInsertsOne ==
    [][\A r \in Slots :
        (req[r].op = "create_note" /\ req'[r] # req[r]) =>
            LET caller == UserOfCookie(req[r].cookie)
            IN /\ (req[r].pc = "create_note" /\ req'[r].pc = "done") =>
                    /\ req'[r].status = 422
                    /\ req'[r].title \in {"", " "}
                    /\ db' = db /\ redis' = redis
               /\ (req[r].pc = "create_note" /\ req'[r].pc # "done") =>
                    /\ req'[r].pc = "create_note_delete"
                    /\ caller # 0
                    /\ \E title \in TitleIn \ {"", " "}, text \in TextIn :
                        LET n == [id |-> req'[r].out_id, title |-> title,
                                  text |-> text, created_at |-> clock,
                                  updated_at |-> clock, user_id |-> caller]
                        IN /\ \A m \in notes : m.id # n.id
                           /\ notes' = notes \cup {n}
                    /\ UNCHANGED <<users, next_user_id, redis>>
               /\ req[r].pc = "create_note_delete" =>
                    /\ req'[r].pc = "done" /\ req'[r].status = 200
                    /\ kv_notes' = Del(kv_notes, caller)
                    /\ db' = db]_vars

C15_Witness ==
    \E r \in Slots :
        /\ req[r].op = "create_note" /\ req[r].pc = "done" /\ req[r].status = 200
        /\ req[r].user.user_id = 2
        /\ \E n \in notes : n.id = req[r].out_id /\ n.user_id = 2 /\ n.title = "T1"
        /\ 2 \notin DOMAIN kv_notes

\* The time since the stored record of session s was created or last refreshed.
SessionAge(s) == (now - SessionRecord(s).last_activity) * TickSeconds

\* The record of a session is kept for the full TTL from its last refresh.
SlidingTTL(s) ==
    /\ SessionAge(s) < SESSION_EXPIRY_HOURS * 3600
    /\ kv_session[s].ttl = SESSION_EXPIRY_HOURS * 3600 - SessionAge(s)

\* C16: a session id resolves exactly when it has not been destroyed and less
\* than the TTL has passed since its creation or its last successful resolve;
\* each resolve sets last_activity and the full TTL again.
C16_SlidingLifetime ==
    \A s \in DOMAIN issued :
        /\ s \in DOMAIN kv_session => s \notin loggedOut /\ SlidingTTL(s)
        /\ s \notin DOMAIN kv_session => s \in ended

\* C16, the TTL alone: whatever record there is lives for the full TTL from
\* its last refresh.
C16_RecordsSlide ==
    \A s \in DOMAIN issued \cap DOMAIN kv_session : SlidingTTL(s)

\* The session id the login or logout in slot r works on.
OwnSession(q) ==
    IF q.op = "logout" THEN q.cookie ELSE IF q.op = "login" THEN q.sid ELSE 0

\* C19: no step of a login or of a logout removes or changes the record of
\* another session, of the same or of another user, or takes another session
\* out of a user's set of sessions.
C19_OtherSessionsKept ==
    [][\A r \in Slots :
        (req'[r] # req[r] /\ (req[r].op \in {"login", "logout"}
                                \/ req'[r].op \in {"login", "logout"})) =>
            LET own == {OwnSession(req[r]), OwnSession(req'[r])}
            IN /\ \A s \in DOMAIN kv_session \ own :
                    /\ s \in DOMAIN kv_session'
                    /\ kv_session'[s] = kv_session[s]
               /\ \A u \in DOMAIN kv_user_sessions :
                    \A s \in kv_user_sessions[u].members \ own :
                        /\ u \in DOMAIN kv_user_sessions'
                        /\ s \in kv_user_sessions'[u].members]_vars

C19_Witness ==
    \E r \in Slots :
        /\ req[r].op = "logout" /\ req[r].cookie = 101
        /\ req[r].pc = "done" /\ req[r].status = 303
        /\ 101 \notin DOMAIN kv_session
        /\ 1 \in DOMAIN kv_session /\ SessionRecord(1).user_id = 1
        /\ 102 \in DOMAIN kv_session
        /\ 1 \in DOMAIN kv_user_sessions /\ kv_user_sessions[1].members = {1}

\* C20: GET /search/ with a valid session is answered 200 with the user's
\* matching notes, and 401 without a valid session.
C20_SearchAnswers ==
    \A r \in Slots :
        (req[r].op = "search" /\ req[r].pc = "done") =>
            /\ req[r].status \in {200, 401}
            /\ req[r].status = 200 <=> req[r].cookie \in DOMAIN kv_session
            /\ \A i \in 1..Len(req[r].body) :
                \E n \in NotesOfUser(UserOfCookie(req[r].cookie)) :
                    n.id = req[r].body[i].id

\* SMEMBERS user_sessions:<uid>: the set of active sessions of the user.
ActiveSessions(user_id) ==
    IF user_id \in DOMAIN kv_user_sessions
    THEN kv_user_sessions[user_id].members ELSE {}

\* The session ids that resolve to the user now.
LiveSessions(user_id) ==
    {s \in DOMAIN kv_session : SessionRecord(s).user_id = user_id}

\* No create_session and no delete_session is between its Redis commands.
NoSessionWriteInFlight ==
    \A r \in Slots : req[r].pc \notin {"create_session_sadd", "create_session_expire",
                                       "delete_session_srem", "delete_session_delete"}

\* C21: whenever no create or destroy is under way, the active-session set of
\* every user holds exactly the session ids of the user that resolve, and the
\* active_sessions of a profile response is the number of the user's live
\* sessions.
C21_ActiveSetIsLiveSessions ==
    NoSessionWriteInFlight =>
        /\ \A u \in users : ActiveSessions(u.id) = LiveSessions(u.id)
        /\ \A r \in Slots :
            (req[r].op = "get_profile" /\ req[r].pc = "done" /\ req[r].status = 200) =>
                req[r].active_sessions =
                    Cardinality(LiveSessions(UserOfCookie(req[r].cookie)))

\* C21, the part that holds: a session id in a user's set was issued for this user.
C21_MembersAreOwn ==
    \A u \in DOMAIN kv_user_sessions :
        \A s \in kv_user_sessions[u].members : UserOfCookie(s) = u

\* C22: the UPDATE of an update request (a non-empty patch, later answered 200
\* "Note updated successfully") is applied to a note that exists and is owned by
\* the caller at the moment of the write, whatever ran since the ownership SELECT.
C22_UpdateWriteAtomic ==
    [][\A r \in Slots :
        (req[r].pc = "update_note_write" /\ req'[r].pc = "update_note_delete") =>
            /\ req[r].title # NoneStr \/ req[r].text # NoneStr
            /\ \E n \in NoteRows(req[r].note_id) :
                /\ n.user_id = req[r].user.user_id
                /\ UpdateRow(n, req[r]) \in notes']_vars

\* C23: an update that has passed the owner check is never rejected: its UPDATE
\* sets each field it supplies to its value and leaves the fields it does not
\* supply as the last committed update left them, whatever other update of the
\* same note committed since its SELECT, and it is answered 200; so after two
\* concurrent updates each field holds the value of the last commit that
\* supplied it.
C23_LastWriteWins ==
    [][\A r \in Slots :
        (req[r].op = "update_note" /\ req'[r] # req[r]) =>
            /\ (req[r].pc = "update_note_write" /\ NoteRows(req[r].note_id) # {}) =>
                /\ req'[r].pc = "update_note_delete"
                /\ \A n \in NoteRows(req[r].note_id) :
                    \E m \in notes' :
                        /\ m.id = n.id
                        /\ m.title = IF req[r].title # NoneStr THEN req[r].title ELSE n.title
                        /\ m.text = IF req[r].text # NoneStr THEN req[r].text ELSE n.text
                        /\ m.updated_at >= n.updated_at
                /\ \A n \in notes : n.id # req[r].note_id => n \in notes'
            /\ req[r].pc = "update_note_delete" =>
                req'[r].pc = "done" /\ req'[r].status = 200]_vars

\* Two updates of note 1 overlap: the first to commit supplied title and text,
\* the second only another title, and the second is answered 200 while the first
\* has not yet returned; the note holds the second's title and the first's text.
C23_Witness ==
    \E r, o \in Slots :
        /\ r # o
        /\ req[r].op = "update_note" /\ req[r].pc = "done" /\ req[r].status = 200
        /\ req[r].note_id = 1
        /\ req[o].op = "update_note" /\ req[o].pc = "update_note_delete"
        /\ req[o].note_id = 1
        /\ \E n \in notes :
            /\ n.id = 1 /\ n.title = "T3" /\ n.text = "B2" /\ n.updated_at = MaxClock

\* The request in slot r is being handled.
InFlight(r) == req[r].pc \notin {"idle", "done"}

\* The database connections the handlers hold open.
OpenConnections == Cardinality({r \in Slots : req[r].conn})

\* C24: whenever no request is in flight, no database connection is open:
\* every handler has closed its connection by the time it has returned, on the
\* success paths, on the 4xx paths and on the paths where a statement raises.
C24_ConnectionsReleased ==
    (\A r \in Slots : ~InFlight(r)) => OpenConnections = 0

\* C24, the paths without an error of the store: a handler that has answered
\* and in which no statement raised has closed its connection.
C24_ReleasedUnlessRaised ==
    \A r \in Slots :
        (req[r].pc = "done" /\ req[r].err # "db_unique") => ~req[r].conn

\* C25: delete_session(s) of a session whose record is there takes s out of the
\* set of the record's user and removes the record, touching nothing else in the
\* session store; delete_session of an id without a record (never issued,
\* expired, or deleted before) changes nothing, so that a second delete_session(s)
\* leaves what the first left.
C25_DestroyDeregisters ==
    [][\A r \in Slots :
        (req'[r] # req[r] /\ req'[r].op = "logout") =>
            LET s == req'[r].cookie
            IN /\ req[r].pc = "idle" =>
                    /\ redis' = redis
                    /\ s \in DOMAIN kv_session =>
                        /\ req'[r].pc = "delete_session_srem"
                        /\ req'[r].data.user_id = SessionRecord(s).user_id
                    /\ s \notin DOMAIN kv_session =>
                        req'[r].pc \in {"delete_session_delete", "done"}
               /\ req[r].pc = "delete_session_srem" =>
                    /\ req'[r].pc = "delete_session_delete"
                    /\ kv_session' = kv_session
                    /\ \A u \in users :
                        ActiveSessions(u.id)' = ActiveSessions(u.id) \ {s}
               /\ req[r].pc = "delete_session_delete" =>
                    /\ req'[r].pc = "done" /\ req'[r].status = 303
                    /\ s \notin DOMAIN kv_session'
                    /\ \A k \in DOMAIN kv_session \ {s} :
                        k \in DOMAIN kv_session' /\ kv_session'[k] = kv_session[k]
                    /\ kv_user_sessions' = kv_user_sessions
                    /\ s \notin DOMAIN kv_session => redis' = redis]_vars

\* A logout of session 101 has returned: its record is gone and 101 is out of
\* alice's set while bob's session stays; a second logout of 101 is at its DELETE.
C25_Witness ==
    \E r, o \in Slots :
        /\ req[r].op = "logout" /\ req[r].cookie = 101
        /\ req[r].pc = "done" /\ req[r].status = 303
        /\ 101 \notin DOMAIN kv_session /\ 101 \notin ActiveSessions(1)
        /\ 102 \in DOMAIN kv_session /\ 102 \in ActiveSessions(2)
        /\ req[o].op = "logout" /\ req[o].cookie = 101
        /\ req[o].pc = "delete_session_delete"

\* The ids of the rows of table users.
UserIds == {u.id : u \in users}

\* C26: the owner id of every note and the user_id of every session record is
\* the id of an existing user, whichever path of login created the session.
C26_ReferentialIntegrity ==
    /\ \A n \in notes : n.user_id \in UserIds
    /\ \A s \in DOMAIN kv_session : SessionRecord(s).user_id \in UserIds

\* alice's second session was created from her cache entry (the entry is the one
\* of her first login, neither rewritten nor expired), and she has created a
\* note with it.
C26_Witness ==
    /\ "alice" \in DOMAIN kv_user /\ kv_user["alice"].ttl = UserCacheTTL \div 2
    /\ 1 \in DOMAIN kv_session /\ SessionRecord(1).user_id = 1
    /\ \E n \in notes : n.user_id = 1
    /\ \E r \in Slots : req[r].op = "create_note" /\ req[r].cookie = 1
                        /\ req[r].pc = "done" /\ req[r].status = 200

\* C27: no step removes a user or changes the id, username or password_hash of
\* one; the set of users changes only by the INSERT of a register that is then
\* answered with success, which adds one user with a fresh id and a free username.
C27_UsersOnlyGrow ==
    [][/\ \A u \in users :
            \E v \in users' : /\ v.id = u.id /\ v.username = u.username
                              /\ v.password_hash = u.password_hash
       /\ users' # users =>
            \E r \in Slots :
                /\ req[r].op = "register" /\ req[r].pc = "register_insert"
                /\ req'[r].pc \in {"register_delete", "done"}
                /\ req'[r].status \in {0, 200}
                /\ \E v \in users' :
                    /\ users' = users \cup {v}
                    /\ v.id \notin UserIds
                    /\ v.username = req[r].username
                    /\ UserRows(v.username) = {}
                    /\ v.password_hash = hash_password(req[r].password)]_vars

\* bob has registered and alice has logged in again: alice's row is as it was.
C27_Witness ==
    /\ \E r \in Slots : /\ req[r].op = "register" /\ req[r].username = "bob"
                        /\ req[r].pc = "done" /\ req[r].status = 200
    /\ \E u \in users : u.id = 2 /\ u.username = "bob"
    /\ \E u \in users : /\ u.id = 1 /\ u.username = "alice"
                        /\ u.password_hash = hash_password("secret1")
    /\ Cardinality(users) = 2
    /\ 1 \in DOMAIN issued

\* The row of table users with this username, with every column.
UserRow(username) == CHOOSE u \in users : u.username = username

\* C28: a login answered 303 has set last_login of the user's row to the time
\* of the login, whether the credentials came from the cache or from the store.
C28_LoginSetsLastLogin ==
    \A r \in Slots :
        (req[r].op = "login" /\ req[r].pc = "done" /\ req[r].status = 303) =>
            /\ UserRows(req[r].username) # {}
            /\ UserRow(req[r].username).last_login > 0
            /\ UserRow(req[r].username).last_login <= clock

\* The request in slot r is a login that has verified its password.
LoginVerified(r) ==
    /\ req[r].op = "login"
    /\ \/ req[r].pc \in {"create_session", "create_session_sadd", "create_session_expire"}
       \/ req[r].pc = "done" /\ req[r].status = 303

\* C29: an entry user:<username> of the cache is the store's (id, username,
\* password_hash) of that username; a login that verified its password, from the
\* cache or from the store, carries credentials the store holds and binds its
\* session to the store's id of the username, and a login answered 401 carries
\* credentials the store does not hold.
C29_CacheCoherent ==
    /\ \A name \in DOMAIN kv_user :
        /\ UserRows(name) # {}
        /\ json_loads(kv_user[name].val) = SelectUser(name)
    /\ \A r \in Slots :
        /\ LoginVerified(r) =>
            /\ CredentialsStored(req[r].username, req[r].password)
            /\ req[r].pc # "done" => req[r].uid = SelectUser(req[r].username).id
            /\ req[r].pc = "done" =>
                /\ req[r].set_cookie \in DOMAIN issued
                /\ issued[req[r].set_cookie].user_id = SelectUser(req[r].username).id
        /\ (req[r].op = "login" /\ req[r].pc = "done" /\ req[r].status = 401) =>
            ~CredentialsStored(req[r].username, req[r].password)

\* A login of alice answered 303 from her cache entry, the entry being the one of
\* her first login.
C29_Witness ==
    /\ "alice" \in DOMAIN kv_user /\ kv_user["alice"].ttl = UserCacheTTL \div 2
    /\ \E r \in Slots :
        /\ req[r].op = "login" /\ req[r].username = "alice"
        /\ req[r].pc = "done" /\ req[r].status = 303
        /\ req[r].set_cookie = 1
        /\ issued[1].user_id = 1

\* The record carries the identity create_session bound to session id s.
IdentityOf(record, s) ==
    /\ record.user_id = issued[s].user_id
    /\ record.username = issued[s].username

\* C30: every stored record of an issued session id carries the identity the id
\* was created with; a successful get_session(s) hands that identity to the
\* handler and rewrites the record with the same user_id, username and
\* created_at, with last_activity = now and the full TTL, leaving every other
\* record alone.
C30_SessionKeepsIdentity ==
    [][/\ \A s \in DOMAIN kv_session \cap DOMAIN issued :
            IdentityOf(SessionRecord(s), s)
       /\ \A r \in Slots :
            (req[r].pc = "get_session" /\ req'[r] # req[r]) =>
                LET s == req[r].cookie
                    old == req[r].data
                IN /\ s \in DOMAIN issued
                   /\ IdentityOf(req'[r].user, s)
                   /\ s \in DOMAIN kv_session'
                   /\ SessionRecord(s)' = [old EXCEPT !.last_activity = now]
                   /\ IdentityOf(SessionRecord(s)', s)
                   /\ kv_session'[s].ttl = SESSION_EXPIRY_HOURS * 3600
                   /\ \A k \in DOMAIN kv_session \ {s} :
                        k \in DOMAIN kv_session' /\ kv_session'[k] = kv_session[k]]_vars

\* alice has logged in again (session 1) and logged out of session 101; a
\* profile request with session 1 is answered with alice's identity.
C30_Witness ==
    \E r \in Slots :
        /\ req[r].op = "get_profile" /\ req[r].cookie = 1
        /\ req[r].pc = "done" /\ req[r].status = 200
        /\ req[r].user.user_id = 1 /\ req[r].user.username = "alice"
        /\ 101 \in loggedOut
        /\ 102 \in DOMAIN kv_session
====
